---- MODULE Spec2Model ----
(***************************************************************************)
(* Model of src/src/handler.ts: the stock-check handler of                 *)
(* website-in-stock-cron-checker.  One invocation of `handler` fetches the *)
(* target page, evaluates the element with id "add" and conditionally      *)
(* sends an email.  The handler is an async function: it is suspended at   *)
(* `await fetch`, `await res.text()` and `await ses.send`, so each action  *)
(* below is the synchronous run of the code between two suspension points. *)
(*                                                                         *)
(* Strings are TLA+ strings; the string functions of the code (trim,       *)
(* toLowerCase, includes, the regular expression) are computed character   *)
(* by character.  A page is a sequence of nodes (text nodes and elements), *)
(* i.e. the document cheerio's load() builds from the body.                *)
(***************************************************************************)
EXTENDS Integers, Sequences, FiniteSets, TLC

(***************************************************************************)
(* Bounds of the model.                                                    *)
(***************************************************************************)
\* Number of handler invocations that may run interleaved in one process,
\* with the full sets of inputs (Spec).
NumInvocations == 1
\* Number of handler invocations that run interleaved with a sample of the
\* inputs (SpecTwo).
NumConcurrent == 2
\* Largest run of blanks put between the words of a generated button text.
MaxPad == 2

\* The invocations of the model; a specification runs a prefix of them and
\* leaves the others idle.
Invocations ==
  1..(IF NumInvocations > NumConcurrent THEN NumInvocations ELSE NumConcurrent)

(***************************************************************************)
(* Program constants.                                                      *)
(***************************************************************************)
\* handler.ts:145  `res.status >= 500`
ServerErrorFloor == 500
\* handler.ts:123  the timeout of the fetch, in milliseconds
TimeoutMs == 25000
\* handler.ts:278  the threshold of the slow-execution warning, in milliseconds
SlowThresholdMs == 20000

(***************************************************************************)
(* String functions of the JavaScript runtime, as the code uses them.      *)
(***************************************************************************)
Char(s, k) == SubSeq(s, k, k)

UpperCase == "ABCDEFGHIJKLMNOPQRSTUVWXYZ"
LowerCase == "abcdefghijklmnopqrstuvwxyz"

\* The characters String.prototype.trim strips and the regex class \s matches
\* (those of them that occur in the pages of the model).
IsSpace(c) == c \in {" ", "\n", "\t"}

LowerChar(c) ==
  IF \E k \in 1..Len(UpperCase) : Char(UpperCase, k) = c
  THEN Char(LowerCase, CHOOSE k \in 1..Len(UpperCase) : Char(UpperCase, k) = c)
  ELSE c

RECURSIVE ToLowerCase(_)
ToLowerCase(s) ==
  IF Len(s) = 0 THEN ""
  ELSE LowerChar(Char(s, 1)) \o ToLowerCase(SubSeq(s, 2, Len(s)))

RECURSIVE TrimStart(_)
TrimStart(s) ==
  IF Len(s) > 0 /\ IsSpace(Char(s, 1)) THEN TrimStart(SubSeq(s, 2, Len(s))) ELSE s

RECURSIVE TrimEnd(_)
TrimEnd(s) ==
  IF Len(s) > 0 /\ IsSpace(Char(s, Len(s))) THEN TrimEnd(SubSeq(s, 1, Len(s) - 1)) ELSE s

Trim(s) == TrimEnd(TrimStart(s))

\* s has the literal lit at position p.
HasAt(s, p, lit) ==
  /\ p >= 1
  /\ p + Len(lit) - 1 <= Len(s)
  /\ SubSeq(s, p, p + Len(lit) - 1) = lit

\* String.prototype.includes
Includes(s, sub) == \E p \in 1..(Len(s) + 1) : HasAt(s, p, sub)

\* The position after the longest run of \s characters that starts at p.
RECURSIVE SkipSpaces(_, _)
SkipSpaces(s, p) ==
  IF p <= Len(s) /\ IsSpace(Char(s, p)) THEN SkipSpaces(s, p + 1) ELSE p

\* Mutant of TestAddToCart: the regular expression without its i flag.
TestAddToCartCaseSensitive(text) ==
  \E p \in 1..Len(text) :
    /\ HasAt(text, p, "add")
    /\ LET q == SkipSpaces(text, p + 3) IN
       /\ HasAt(text, q, "to")
       /\ HasAt(text, SkipSpaces(text, q + 2), "cart")

\* handler.ts:174  /add\s*to\s*cart/i.test(text).  The literals that follow
\* each \s* start with a non-space character, so the greedy \s* never has to
\* give a character back.
TestAddToCart(text) ==
  LET s == ToLowerCase(text) IN
  \E p \in 1..Len(s) :
    /\ HasAt(s, p, "add")
    /\ LET q == SkipSpaces(s, p + 3) IN
       /\ HasAt(s, q, "to")
       /\ HasAt(s, SkipSpaces(s, q + 2), "cart")

(***************************************************************************)
(* Start-up: the environment and its validation (handler.ts:12-48).  An    *)
(* environment variable that is not set reads as undefined, which the code *)
(* treats like the empty string (`!x`, `x || y`); the model writes "" for  *)
(* both.                                                                   *)
(***************************************************************************)
Digits == "0123456789"

IsLetter(c) == \E k \in 1..Len(LowerCase) : Char(LowerCase, k) = LowerChar(c)
IsDigit(c) == \E k \in 1..Len(Digits) : Char(Digits, k) = c

\* Schemes whose URLs must name a host.
SpecialSchemes == {"http", "https", "ws", "wss", "ftp"}

\* handler.ts:28  `new URL(targetUrl)` does not throw.  The URL parser strips
\* surrounding whitespace, wants a scheme (a letter, then letters, digits,
\* "+", "-", ".") before the first ":", and for a special scheme a host that
\* is not empty and holds no blank after the slashes.
IsValidUrl(url) ==
  LET s == Trim(url) IN
  \E p \in 2..Len(s) :
    /\ Char(s, p) = ":"
    /\ IsLetter(Char(s, 1))
    /\ \A k \in 1..(p - 1) :
         IsLetter(Char(s, k)) \/ IsDigit(Char(s, k)) \/ Char(s, k) \in {"+", "-", "."}
    /\ ToLowerCase(SubSeq(s, 1, p - 1)) \in SpecialSchemes =>
         \E h \in (p + 1)..Len(s) :
           /\ \A k \in (p + 1)..(h - 1) : Char(s, k) \in {"/", "\\"}
           /\ ~(Char(s, h) \in {"/", "\\", "?", "#", ":", " "})
           /\ \A k \in h..Len(s) : Char(s, k) # " "

\* Mutant of EmailRegexTest: any text around an "@".
EmailHasAt(s) == \E a \in 2..(Len(s) - 1) : Char(s, a) = "@"

\* handler.ts:34  /^[^\s@]+@[^\s@]+\.[^\s@]+$/.test(s): an "@" at a, a "." at
\* d, something before the "@", between the two and after the ".", and no
\* blank and no other "@" anywhere.
EmailRegexTest(s) ==
  \E a \in 2..Len(s) : \E d \in (a + 2)..(Len(s) - 1) :
    /\ Char(s, a) = "@"
    /\ Char(s, d) = "."
    /\ \A k \in 1..Len(s) : k # a => ~IsSpace(Char(s, k)) /\ Char(s, k) # "@"

ValidationOk(c) == [ok |-> TRUE, config |-> c]
ValidationError(message) == [ok |-> FALSE, error |-> message]

\* handler.ts:12-48: the configuration, or the error the function throws.
validateEnvironment(e) ==
  LET region == IF e.AWS_REGION # "" THEN e.AWS_REGION
                ELSE IF e.AWS_DEFAULT_REGION # "" THEN e.AWS_DEFAULT_REGION
                ELSE "us-east-1"
  IN IF e.TARGET_URL = ""
       THEN ValidationError("TARGET_URL environment variable is required")
     ELSE IF e.TO_EMAIL = "" \/ e.FROM_EMAIL = ""
       THEN ValidationError("TO_EMAIL and FROM_EMAIL environment variables are required")
     ELSE IF ~IsValidUrl(e.TARGET_URL)
       THEN ValidationError("TARGET_URL must be a valid URL")
     ELSE IF ~EmailRegexTest(e.TO_EMAIL)
       THEN ValidationError("TO_EMAIL must be a valid email address")
     ELSE IF ~EmailRegexTest(e.FROM_EMAIL)
       THEN ValidationError("FROM_EMAIL must be a valid email address")
     ELSE ValidationOk([region |-> region, targetUrl |-> e.TARGET_URL,
                        toEmail |-> e.TO_EMAIL, fromEmail |-> e.FROM_EMAIL])

Environment(region, defaultRegion, url, to, from) ==
  [AWS_REGION |-> region, AWS_DEFAULT_REGION |-> defaultRegion,
   TARGET_URL |-> url, TO_EMAIL |-> to, FROM_EMAIL |-> from]

\* The environment of a deployed function: every setting is valid and the
\* region is left to its default.
DeployedEnv ==
  Environment("", "", "https://shop.example/item", "to@example.com", "from@example.com")

\* Environments the process may be started in.
Envs ==
  {Environment(r, dr, u, t, f) :
     r \in {"", "eu-west-1"},
     dr \in {"", "us-west-2"},
     u \in {"https://shop.example/item", "", "not a url", "shop.example/item", "https://"},
     t \in {"to@example.com", "", "ops", "a b@example.com", "a@b"},
     f \in {"from@example.com", "", "x@@example.com"}}

(***************************************************************************)
(* Pages.  A body is the sequence of top-level nodes cheerio's load()      *)
(* parses it into: text nodes and elements.  An element has a tag, an id,  *)
(* its text content, its attributes (a function from the names of the      *)
(* attributes it carries to their values) and the tag of its parent.       *)
(***************************************************************************)
TextNode(data) == [type |-> "text", data |-> data]

Element(tag, id, text, attrs, parent) ==
  [type |-> "element", tag |-> tag, id |-> id, text |-> text,
   attrs |-> attrs, parent |-> parent]

NoAttrs == [n \in {} |-> ""]

\* el.attr(name) != null
HasAttr(el, name) == name \in DOMAIN el.attrs

\* (el.attr(name) || "")
AttrOrEmpty(el, name) == IF HasAttr(el, name) THEN el.attrs[name] ELSE ""

\* Mutant of IsBlank: `!html` alone, without the trim.
IsEmpty(html) == Len(html) = 0

\* handler.ts:164  `!html || html.trim().length === 0`: the body is the
\* empty string or consists of whitespace only.  The markup of an element
\* is never blank.
IsBlank(html) ==
  \A k \in 1..Len(html) : html[k].type = "text" /\ Trim(html[k].data) = ""

\* handler.ts:171  $("#add"): the elements with id "add", in document order.
IsTarget(node) == node.type = "element" /\ node.id = "add"

SelectAdd(html) == SelectSeq(html, IsTarget)

\* Cheerio .text(): the combined text of the matched elements.
RECURSIVE CombinedText(_)
CombinedText(sel) ==
  IF Len(sel) = 0 THEN "" ELSE Head(sel).text \o CombinedText(Tail(sel))

\* The :disabled pseudo-class of cheerio's selector engine: a form control
\* carrying the disabled attribute, an option that is the child of a disabled
\* optgroup, or a disabled fieldset.
FormControls == {"button", "input", "select", "textarea", "optgroup", "option"}

MatchesDisabled(el) ==
  \/ el.tag \in FormControls /\ HasAttr(el, "disabled")
  \/ el.tag = "option" /\ el.parent = "optgroup[disabled]"
  \/ el.tag = "fieldset" /\ HasAttr(el, "disabled")

\* handler.ts:87
LockedClasses == {"disabled", "soldout", "locked", "unavailable"}

\* Mutant of HasLockSignal: the class attribute is compared with the class
\* names instead of being searched for them.
HasLockSignalClassEquals(el) ==
  LET hasDisabledAttr ==
        \/ \E k \in 1..Len(el) : MatchesDisabled(el[k])
        \/ HasAttr(el[1], "disabled")
      ariaDisabled == ToLowerCase(AttrOrEmpty(el[1], "aria-disabled")) = "true"
      classStr == ToLowerCase(AttrOrEmpty(el[1], "class"))
      classIndicatesLocked == \E c \in LockedClasses : classStr = c
      dataLocked == ToLowerCase(AttrOrEmpty(el[1], "data-locked")) = "true"
  IN hasDisabledAttr \/ ariaDisabled \/ classIndicatesLocked \/ dataLocked

\* handler.ts:83-90, for a selection el that is not empty; .attr() reads the
\* first matched element, .is() holds when any matched element matches.
HasLockSignal(el) ==
  LET hasDisabledAttr ==
        \/ \E k \in 1..Len(el) : MatchesDisabled(el[k])
        \/ HasAttr(el[1], "disabled")
      ariaDisabled == ToLowerCase(AttrOrEmpty(el[1], "aria-disabled")) = "true"
      classStr == ToLowerCase(AttrOrEmpty(el[1], "class"))
      classIndicatesLocked == \E c \in LockedClasses : Includes(classStr, c)
      dataLocked == ToLowerCase(AttrOrEmpty(el[1], "data-locked")) = "true"
  IN hasDisabledAttr \/ ariaDisabled \/ classIndicatesLocked \/ dataLocked

\* Mutant of isElementLocked: the guard of handler.ts:81 is missing, so an
\* empty selection, which carries no attribute, is not locked.
isElementLockedNoGuard(el) == Len(el) > 0 /\ HasLockSignal(el)

\* handler.ts:80-91.  el is the selection $("#add").
isElementLocked(el) == IF Len(el) = 0 THEN TRUE ELSE HasLockSignal(el)

\* handler.ts:170-177: the CheckResult of a page.
CheckPage(html) ==
  LET addEl == SelectAdd(html)
      exists == Len(addEl) > 0
      text == IF exists THEN Trim(CombinedText(addEl)) ELSE ""
  IN [exists |-> exists,
      text |-> text,
      saysAddToCart |-> TestAddToCart(text),
      locked |-> isElementLocked(addEl)]

\* Mutant of IsAvailable: the lock is not looked at.
IsAvailableIgnoringLock(r) == r.exists /\ r.saysAddToCart

\* handler.ts:187
IsAvailable(r) == r.exists /\ r.saysAddToCart /\ ~r.locked

(***************************************************************************)
(* The pages the target URL may serve.                                     *)
(***************************************************************************)
RECURSIVE Blanks(_)
Blanks(k) == IF k = 0 THEN "" ELSE " " \o Blanks(k - 1)

\* "Add to Cart" with k blanks between the words (k = 0: "AddtoCart").
AddToCartText(k) == "Add" \o Blanks(k) \o "to" \o Blanks(k) \o "Cart"

ButtonTexts ==
  {AddToCartText(k) : k \in 0..MaxPad}
    \cup {" Add to Cart ", "ADD\n TO\tCART", "Sold Out", "Add to Car", ""}

\* An attribute is absent or carries one of these values.
AttrValues ==
  [disabled |-> {""},
   ariaDisabled |-> {"TRUE", "false"},
   class |-> {"btn-SoldOut-v2", "btn primary"},
   dataLocked |-> {"True", "1"}]

Attrs(d, a, c, l) ==
  [n \in (IF d = "absent" THEN {} ELSE {"disabled"})
      \cup (IF a = "absent" THEN {} ELSE {"aria-disabled"})
      \cup (IF c = "absent" THEN {} ELSE {"class"})
      \cup (IF l = "absent" THEN {} ELSE {"data-locked"})
   |-> CASE n = "disabled" -> d
         [] n = "aria-disabled" -> a
         [] n = "class" -> c
         [] n = "data-locked" -> l]

AttrSets ==
  {Attrs(d, a, c, l) :
     d \in {"absent"} \cup AttrValues.disabled,
     a \in {"absent"} \cup AttrValues.ariaDisabled,
     c \in {"absent"} \cup AttrValues.class,
     l \in {"absent"} \cup AttrValues.dataLocked}

\* One attribute with one value.
OneAttr(name, value) == [n \in {name} |-> value]

\* The target elements of the model: the plain button with every text, the
\* "Add to Cart" button with every combination of attributes, one button per
\* class name of handler.ts:87, and an option inside a disabled optgroup.
TargetElements ==
  {Element("button", "add", t, NoAttrs, "body") : t \in ButtonTexts}
    \cup {Element("button", "add", "Add to Cart", at, "body") : at \in AttrSets}
    \cup {Element("button", "add", "Add to Cart", OneAttr("class", c), "body") :
            c \in {"is-Disabled", "LOCKED", "item unavailable", "sold out", "unlocked"}}
    \cup {Element("button", "add", "Sold Out", OneAttr("disabled", ""), "body"),
          Element("option", "add", "Add to Cart", NoAttrs, "optgroup[disabled]"),
          Element("option", "add", "Add to Cart", NoAttrs, "select"),
          Element("div", "add", "add to cart", OneAttr("aria-disabled", "true"), "body")}

\* Bodies that are empty or whitespace only.
BlankBodies == {<< >>, <<TextNode(" \n\t")>>}

\* Bodies without an element with id "add".
NoTargetBodies ==
  {<<Element("div", "", "No add button here", NoAttrs, "body")>>,
   <<TextNode("Not Found")>>,
   <<TextNode("\n"), Element("button", "buy", "Add to Cart", NoAttrs, "body")>>,
   <<Element("button", "address", "Add to Cart", OneAttr("class", "add"), "body")>>}

TargetBodies ==
  {<<TextNode("\n  "), e, TextNode("\n")>> : e \in TargetElements}
    \cup {<<Element("div", "", "Add to Cart", NoAttrs, "body"),
            Element("button", "add", "Notify me", NoAttrs, "body")>>}

Bodies == BlankBodies \cup NoTargetBodies \cup TargetBodies

\* Pages for the lock signals: one target element with every combination of
\* tag, text and values of the four attributes handler.ts:83-88 reads.
SignalAttrSets ==
  {Attrs(d, a, c, l) :
     d \in {"absent", "", "disabled"},
     a \in {"absent", "true", "TRUE", "false", ""},
     c \in {"absent", "", "btn primary", "btn-SoldOut-v2", "is-Disabled", "unlocked",
            "item UNAVAILABLE", "sold out"},
     l \in {"absent", "true", "True", "false", "1"}}

SignalElements ==
  {Element(place[1], "add", t, at, place[2]) :
     place \in {<<"button", "body">>, <<"div", "body">>, <<"option", "select">>,
                <<"option", "optgroup[disabled]">>},
     t \in {"Add to Cart", "ADD\n TO\tCART", "Sold Out", ""},
     at \in SignalAttrSets}

SignalBodies == {<<e, TextNode("\n")>> : e \in SignalElements}

(***************************************************************************)
(* The environment of one invocation: what the HTTP transport and the      *)
(* email service may answer.                                               *)
(***************************************************************************)
\* Status codes the server may answer with, and their status texts.
Statuses == {200, 404, 499, 500, 503}

StatusText(status) ==
  CASE status = 200 -> "OK"
    [] status = 404 -> "Not Found"
    [] status = 499 -> ""
    [] status = 500 -> "Internal Server Error"
    [] status = 503 -> "Service Unavailable"

\* Response.ok of the fetch API.
IsOk(status) == status >= 200 /\ status <= 299

\* Values a promise may reject with: Error objects (name, message) and, as
\* JavaScript allows, a thrown value that is no Error (here a string).
ErrorValue(name, message) == [kind |-> "Error", name |-> name, message |-> message]
StringValue(value) == [kind |-> "string", value |-> value]

\* What fetch rejects with when the network fails.
NetworkErrors ==
  {ErrorValue("Error", "Network down"),
   ErrorValue("TypeError", "fetch failed"),
   StringValue("ECONNRESET")}

\* What fetch rejects with when controller.abort() is called (handler.ts:123).
AbortError == ErrorValue("AbortError", "This operation was aborted")

\* What res.text() rejects with when the body cannot be read.
BodyErrors == {ErrorValue("TypeError", "terminated")}

\* What ses.send rejects with.
SesError == ErrorValue("MessageRejected", "Email address is not verified")

(***************************************************************************)
(* State.  Every variable is a function of the invocation: the handler     *)
(* keeps all of its state in locals.                                       *)
(***************************************************************************)
VARIABLES
  pc,        \* where the invocation is suspended, or "idle" / "done" / "threw"
  timer,     \* the timeout of handler.ts:123: unset, pending, cleared, fired
  aborted,   \* controller.signal.aborted
  res,       \* the fetch response (status, statusText), once there is one
  html,      \* the body res.text() returned, once there is one
  result,    \* the CheckResult, once it is computed
  caught,    \* the value the catch block of handler.ts:231 caught, if any
  emails,    \* the ses.send calls of the invocation, in order
  log,       \* the console output of the invocation, in order
  duration,  \* the duration the finally block measured (handler.ts:274)
  response,  \* the value the handler returned
  env,       \* process.env, the settings the process can read
  startup,   \* the evaluation of the module: "pending", "loaded" or "failed"
  config,    \* the module's `config` (handler.ts:51)
  ses,       \* the module's `ses`, the email client (handler.ts:52)
  startupLog \* the console output of the module's evaluation

\* The state of the process, shared by its invocations.
processVars == <<env, startup, config, ses, startupLog>>

vars ==
  <<pc, timer, aborted, res, html, result, caught, emails, log, duration, response,
    env, startup, config, ses, startupLog>>

\* Values of a local that is not assigned yet.
NoRes == [status |-> 0, statusText |-> ""]
NoHtml == <<[type |-> "none"]>>
NoResult == [unset |-> TRUE]
NoCaught == [kind |-> "none"]
NoResponse == [returned |-> FALSE]
NoDuration == -1
NoConfig == [unset |-> TRUE]
NoSes == [unset |-> TRUE]

\* handler.ts:72-76: the three shapes of HandlerResponse.
HandlerSuccess(notified, r) ==
  [ok |-> TRUE, notified |-> notified, exists |-> r.exists, text |-> r.text,
   saysAddToCart |-> r.saysAddToCart, locked |-> r.locked]
HandlerFetchFail(message) == [ok |-> FALSE, message |-> message]
HandlerError(error) == [ok |-> FALSE, error |-> error]

\* handler.ts:141
HttpErrorMessage(r) ==
  "HTTP " \o ToString(r.status) \o " " \o r.statusText
    \o " when fetching " \o config.targetUrl

\* handler.ts:165
EmptyBodyMessage == "Received empty response from target URL"

\* Mutant of ErrorMessage: the name of the error for its message.
ErrorName(err) == IF err.kind = "Error" THEN err.name ELSE err.value

\* handler.ts:232  err instanceof Error ? err.message : String(err)
ErrorMessage(err) == IF err.kind = "Error" THEN err.message ELSE err.value

\* Mutant of IsAbortError: the name of the error of AbortSignal.timeout().
IsTimeoutError(err) == err.kind = "Error" /\ err.name = "TimeoutError"

\* handler.ts:233
IsAbortError(err) == err.kind = "Error" /\ err.name = "AbortError"

\* Email subjects: handler.ts:148, 188, 244.
ServerErrorSubject == "Stock check: Server error detected"
StockSubject == "Item In Stock Alert - Add to Cart Available!"
ErrorSubject(err) ==
  IF IsAbortError(err) THEN "Stock check timeout" ELSE "Stock check system error"

\* The process starts in one of the environments of E; the module is not
\* evaluated yet and no invocation has begun.
InitIn(E) ==
  /\ env \in E
  /\ startup = "pending"
  /\ config = NoConfig
  /\ ses = NoSes
  /\ startupLog = << >>
  /\ pc = [i \in Invocations |-> "idle"]
  /\ timer = [i \in Invocations |-> "unset"]
  /\ aborted = [i \in Invocations |-> FALSE]
  /\ res = [i \in Invocations |-> NoRes]
  /\ html = [i \in Invocations |-> NoHtml]
  /\ result = [i \in Invocations |-> NoResult]
  /\ caught = [i \in Invocations |-> NoCaught]
  /\ emails = [i \in Invocations |-> << >>]
  /\ log = [i \in Invocations |-> << >>]
  /\ duration = [i \in Invocations |-> NoDuration]
  /\ response = [i \in Invocations |-> NoResponse]

Init == InitIn({DeployedEnv})

(***************************************************************************)
(* Building blocks of the actions.  Each constrains only the variables it  *)
(* names; the action that uses it says what else is unchanged.             *)
(***************************************************************************)
\* Mutant of SendEmail: a copy for the sender is sent alongside, and only
\* the last send is awaited.
SendEmailWithCopy(i, em, subject, where, lines) ==
  /\ emails' = [em EXCEPT ![i] =
                  @ \o <<[to |-> config.fromEmail, from |-> config.fromEmail,
                          subject |-> subject, outcome |-> "pending"],
                         [to |-> config.toEmail, from |-> config.fromEmail,
                          subject |-> subject, outcome |-> "pending"]>>]
  /\ log' = [log EXCEPT ![i] = @ \o lines]
  /\ pc' = [pc EXCEPT ![i] = where]

\* Mutant of SendEmail: the addresses are read from the environment when
\* the email is sent.
SendEmailFromEnv(i, em, subject, where, lines) ==
  /\ emails' = [em EXCEPT ![i] =
                  Append(@, [to |-> env.TO_EMAIL, from |-> env.FROM_EMAIL,
                             subject |-> subject, outcome |-> "pending"])]
  /\ log' = [log EXCEPT ![i] = @ \o lines]
  /\ pc' = [pc EXCEPT ![i] = where]

\* handler.ts:93-104: sendEmail builds the command and awaits ses.send; the
\* handler is suspended at `await` with where as its continuation.  em is
\* the record of the earlier sends.
SendEmail(i, em, subject, where, lines) ==
  /\ emails' = [em EXCEPT ![i] =
                  Append(@, [to |-> config.toEmail, from |-> config.fromEmail,
                             subject |-> subject, outcome |-> "pending"])]
  /\ log' = [log EXCEPT ![i] = @ \o lines]
  /\ pc' = [pc EXCEPT ![i] = where]

\* handler.ts:104-109: ses.send settles; sendEmail logs the outcome and
\* returns the result or rethrows the error.
Settled(i, outcome) == [emails EXCEPT ![i][Len(emails[i])].outcome = outcome]

SendEmailLog(outcome) ==
  IF outcome = "delivered" THEN <<"Email sent successfully">>
  ELSE <<"Failed to send email">>

\* Date.now() - start, as the finally block may measure it.  The timeout
\* fires no earlier than TimeoutMs after the start, so an invocation that
\* ends after it fired has run at least that long; otherwise the model takes
\* the two durations around the threshold.
PossibleDurations(i) ==
  IF timer[i] = "fired" THEN {TimeoutMs}
  ELSE {SlowThresholdMs, SlowThresholdMs + 1}

\* Mutant of Finally: the warning is logged from the threshold on.
FinallyWarnsAtThreshold(i, lines) ==
  \E d \in PossibleDurations(i) :
    /\ duration' = [duration EXCEPT ![i] = d]
    /\ log' = [log EXCEPT ![i] =
                 @ \o lines \o <<"Stock check completed">>
                   \o (IF d >= SlowThresholdMs THEN <<"Slow execution detected">> ELSE << >>)]

\* handler.ts:273-281: the finally block logs the completion with the
\* duration and, above the threshold, the slow-execution warning.
Finally(i, lines) ==
  \E d \in PossibleDurations(i) :
    /\ duration' = [duration EXCEPT ![i] = d]
    /\ log' = [log EXCEPT ![i] =
                 @ \o lines \o <<"Stock check completed">>
                   \o (IF d > SlowThresholdMs THEN <<"Slow execution detected">> ELSE << >>)]

\* A return statement of the handler: the finally block runs, then the
\* handler's promise resolves with r.
Return(i, r, lines) ==
  /\ response' = [response EXCEPT ![i] = r]
  /\ Finally(i, lines)
  /\ pc' = [pc EXCEPT ![i] = "done"]

\* An exception that leaves the handler: the finally block runs and the
\* handler's promise rejects.
Escape(i, lines) ==
  /\ response' = response
  /\ Finally(i, lines)
  /\ pc' = [pc EXCEPT ![i] = "threw"]

\* Mutant of Catch: the catch block returns without sending a notification.
CatchSilently(i, em, err, lines) ==
  /\ caught' = [caught EXCEPT ![i] = err]
  /\ emails' = em
  /\ Return(i, HandlerError(ErrorMessage(err)),
            lines \o <<"Critical error in stock check handler">>)

\* handler.ts:231-266: an exception thrown inside the try block is caught;
\* the catch block logs it and sends the error notification.
Catch(i, em, err, lines) ==
  /\ caught' = [caught EXCEPT ![i] = err]
  /\ SendEmail(i, em, ErrorSubject(err), "sendingErrorNotice",
               lines \o <<"Critical error in stock check handler">>)
  /\ UNCHANGED <<duration, response>>

(***************************************************************************)
(* Actions.                                                                *)
(***************************************************************************)
\* handler.ts:50-63: the module is evaluated.  The environment is validated
\* and the email client is built; a validation error is logged and thrown
\* again, so that the module has no handler to call.
LoadModule ==
  /\ startup = "pending"
  /\ LET v == validateEnvironment(env) IN
     IF v.ok
     THEN /\ config' = v.config
          /\ ses' = [region |-> v.config.region, maxAttempts |-> 3]
          /\ startup' = "loaded"
          /\ startupLog' = startupLog
     ELSE /\ startupLog' = startupLog \o <<"Environment validation failed:", v.error>>
          /\ startup' = "failed"
          /\ UNCHANGED <<config, ses>>
  /\ UNCHANGED <<env, pc, timer, aborted, res, html, result, caught, emails, log,
                 duration, response>>

\* handler.test.ts:29-33: after the module is loaded, the recipient and the
\* sender are blanked in the environment.
BlankEmailEnv ==
  /\ startup = "loaded"
  /\ env.TO_EMAIL # "" \/ env.FROM_EMAIL # ""
  /\ env' = [env EXCEPT !.TO_EMAIL = "", !.FROM_EMAIL = ""]
  /\ UNCHANGED <<startup, config, ses, startupLog, pc, timer, aborted, res, html,
                 result, caught, emails, log, duration, response>>

\* handler.ts:113-136: the handler is called; it logs the start, arms the
\* 25 s timeout and calls fetch.
Start(i) ==
  /\ startup = "loaded"
  /\ pc[i] = "idle"
  /\ log' = [log EXCEPT ![i] = @ \o <<"Starting stock check execution", "Target URL">>]
  /\ timer' = [timer EXCEPT ![i] = "pending"]
  /\ pc' = [pc EXCEPT ![i] = "fetching"]
  /\ UNCHANGED <<aborted, res, html, result, caught, emails, duration, response>>
  /\ UNCHANGED processVars

\* Mutant of NotifiesServerError: `>` for `>=`.
NotifiesAboveServerErrorFloor(status) == status > ServerErrorFloor

\* handler.ts:145
NotifiesServerError(status) == status >= ServerErrorFloor

\* handler.ts:138-162: fetch resolves with a response.  The timeout is
\* cleared; a non-success status ends the invocation (after the email of a
\* server error), a success status goes on to read the body.
FetchResponds(i, status) ==
  /\ pc[i] = "fetching"
  /\ LET r == [status |-> status, statusText |-> StatusText(status)]
         msg == HttpErrorMessage(r)
     IN /\ res' = [res EXCEPT ![i] = r]
        /\ timer' = [timer EXCEPT ![i] = "cleared"]
        /\ IF ~IsOk(status)
           THEN IF NotifiesServerError(status)
                THEN /\ SendEmail(i, emails, ServerErrorSubject, "sendingServerError", <<msg>>)
                     /\ UNCHANGED <<duration, response>>
                ELSE /\ Return(i, HandlerFetchFail(msg), <<msg>>)
                     /\ UNCHANGED emails
           ELSE /\ pc' = [pc EXCEPT ![i] = "reading"]
                /\ UNCHANGED <<emails, log, duration, response>>
  /\ UNCHANGED <<aborted, html, result, caught>>
  /\ UNCHANGED processVars

\* handler.ts:125 -> 231: fetch rejects with a network error.  The catch
\* block does not clear the timeout.
FetchRejects(i, err) ==
  /\ pc[i] = "fetching"
  /\ Catch(i, emails, err, << >>)
  /\ UNCHANGED <<timer, aborted, res, html, result>>
  /\ UNCHANGED processVars

\* Mutant of TimerFires: the AbortController is shared by the invocations
\* of the process, so that the timeout of one aborts every fetch in flight.
TimerFiresSharedController(i) ==
  /\ timer[i] = "pending"
  /\ timer' = [timer EXCEPT ![i] = "fired"]
  /\ aborted' = [j \in Invocations |-> TRUE]
  /\ LET hit == {j \in Invocations : pc[j] = "fetching"} IN
     /\ caught' = [j \in Invocations |-> IF j \in hit THEN AbortError ELSE caught[j]]
     /\ emails' = [j \in Invocations |->
                     IF j \in hit
                     THEN Append(emails[j], [to |-> config.toEmail, from |-> config.fromEmail,
                                             subject |-> ErrorSubject(AbortError),
                                             outcome |-> "pending"])
                     ELSE emails[j]]
     /\ log' = [j \in Invocations |->
                  IF j \in hit THEN log[j] \o <<"Critical error in stock check handler">>
                  ELSE log[j]]
     /\ pc' = [j \in Invocations |-> IF j \in hit THEN "sendingErrorNotice" ELSE pc[j]]
  /\ UNCHANGED <<res, html, result, duration, response>>
  /\ UNCHANGED processVars

\* handler.ts:123: the timeout fires and calls controller.abort(); a fetch
\* that is in flight rejects with an AbortError.
TimerFires(i) ==
  /\ timer[i] = "pending"
  /\ timer' = [timer EXCEPT ![i] = "fired"]
  /\ aborted' = [aborted EXCEPT ![i] = TRUE]
  /\ IF pc[i] = "fetching"
     THEN Catch(i, emails, AbortError, << >>)
     ELSE UNCHANGED <<pc, caught, emails, log, duration, response>>
  /\ UNCHANGED <<res, html, result>>
  /\ UNCHANGED processVars

\* handler.ts:162-229: res.text() resolves with the body.  An empty body ends
\* the invocation; otherwise the page is evaluated and, when the item is
\* available, the stock email is sent.
BodyArrives(i, body) ==
  /\ pc[i] = "reading"
  /\ html' = [html EXCEPT ![i] = body]
  /\ IF IsBlank(body)
     THEN /\ Return(i, HandlerFetchFail(EmptyBodyMessage), <<EmptyBodyMessage>>)
          /\ UNCHANGED <<result, emails>>
     ELSE LET r == CheckPage(body) IN
          /\ result' = [result EXCEPT ![i] = r]
          /\ IF IsAvailable(r)
             THEN /\ SendEmail(i, emails, StockSubject, "sendingStock", <<"Stock check result">>)
                  /\ UNCHANGED <<duration, response>>
             ELSE /\ Return(i, HandlerSuccess(FALSE, r), <<"Stock check result">>)
                  /\ UNCHANGED emails
  /\ UNCHANGED <<timer, aborted, res, caught>>
  /\ UNCHANGED processVars

\* handler.ts:162 -> 231: res.text() rejects.
BodyRejects(i, err) ==
  /\ pc[i] = "reading"
  /\ Catch(i, emails, err, << >>)
  /\ UNCHANGED <<timer, aborted, res, html, result>>
  /\ UNCHANGED processVars

\* Mutant of AfterStockEmail: the try/catch around the send is missing, so a
\* failed send is thrown into the catch block of the handler.
AfterStockEmailUncaught(i, outcome) ==
  IF outcome = "delivered"
  THEN /\ emails' = Settled(i, outcome)
       /\ Return(i, HandlerSuccess(TRUE, result[i]),
                 SendEmailLog(outcome) \o <<"Stock available notification sent successfully">>)
       /\ UNCHANGED caught
  ELSE Catch(i, Settled(i, outcome), SesError, SendEmailLog(outcome))

\* handler.ts:218-226: the stock email settled.
AfterStockEmail(i, outcome) ==
  /\ emails' = Settled(i, outcome)
  /\ IF outcome = "delivered"
     THEN Return(i, HandlerSuccess(TRUE, result[i]),
                 SendEmailLog(outcome) \o <<"Stock available notification sent successfully">>)
     ELSE Return(i, HandlerSuccess(FALSE, result[i]),
                 SendEmailLog(outcome) \o <<"Failed to send stock notification">>)
  /\ UNCHANGED caught

\* Mutant of AfterServerErrorEmail: the try/catch around the send is
\* missing, so a failed send is thrown into the catch block of the handler.
AfterServerErrorEmailUncaught(i, outcome) ==
  IF outcome = "delivered"
  THEN /\ emails' = Settled(i, outcome)
       /\ Return(i, HandlerFetchFail(HttpErrorMessage(res[i])), SendEmailLog(outcome))
       /\ UNCHANGED caught
  ELSE Catch(i, Settled(i, outcome), SesError, SendEmailLog(outcome))

\* handler.ts:146-159: the server-error email settled.
AfterServerErrorEmail(i, outcome) ==
  /\ emails' = Settled(i, outcome)
  /\ Return(i, HandlerFetchFail(HttpErrorMessage(res[i])),
            SendEmailLog(outcome)
              \o (IF outcome = "delivered" THEN << >>
                  ELSE <<"Failed to send error notification">>))
  /\ UNCHANGED caught

\* Mutant of AfterErrorNotice: the try/catch around the send is missing, so a
\* failed send leaves the handler as an exception.
AfterErrorNoticeUncaught(i, outcome) ==
  /\ emails' = Settled(i, outcome)
  /\ IF outcome = "delivered"
     THEN Return(i, HandlerError(ErrorMessage(caught[i])), SendEmailLog(outcome))
     ELSE Escape(i, SendEmailLog(outcome))
  /\ UNCHANGED caught

\* handler.ts:266-271: the error notification of the catch block settled.
AfterErrorNotice(i, outcome) ==
  /\ emails' = Settled(i, outcome)
  /\ Return(i, HandlerError(ErrorMessage(caught[i])),
            SendEmailLog(outcome)
              \o (IF outcome = "delivered" THEN << >>
                  ELSE <<"Failed to send error notification">>))
  /\ UNCHANGED caught

Sending == {"sendingStock", "sendingServerError", "sendingErrorNotice"}

\* The continuation of the handler after `await sendEmail(...)`.
AfterEmail(i, outcome) ==
  CASE pc[i] = "sendingStock" -> AfterStockEmail(i, outcome)
    [] pc[i] = "sendingServerError" -> AfterServerErrorEmail(i, outcome)
    [] pc[i] = "sendingErrorNotice" -> AfterErrorNotice(i, outcome)

\* handler.ts:104-106: ses.send resolves.
EmailDelivered(i) ==
  /\ pc[i] \in Sending
  /\ AfterEmail(i, "delivered")
  /\ UNCHANGED <<timer, aborted, res, html, result>>
  /\ UNCHANGED processVars

\* handler.ts:107-109: ses.send rejects.
EmailFails(i) ==
  /\ pc[i] \in Sending
  /\ AfterEmail(i, "failed")
  /\ UNCHANGED <<timer, aborted, res, html, result>>
  /\ UNCHANGED processVars

\* The module is loaded in the deployed environment and NumInvocations
\* invocations run interleaved, each with any of the inputs.
Next ==
  \/ LoadModule
  \/ \E i \in 1..NumInvocations :
       \/ Start(i)
       \/ \E status \in Statuses : FetchResponds(i, status)
       \/ \E err \in NetworkErrors : FetchRejects(i, err)
       \/ TimerFires(i)
       \/ \E body \in Bodies : BodyArrives(i, body)
       \/ \E err \in BodyErrors : BodyRejects(i, err)
       \/ EmailDelivered(i)
       \/ EmailFails(i)

Spec == Init /\ [][Next]_vars

\* One invocation whose page is any of the pages for the lock signals.
NextSignals ==
  \/ LoadModule
  \/ \E i \in {1} :
       \/ Start(i)
       \/ \E status \in Statuses : FetchResponds(i, status)
       \/ \E err \in NetworkErrors : FetchRejects(i, err)
       \/ TimerFires(i)
       \/ \E body \in SignalBodies : BodyArrives(i, body)
       \/ \E err \in BodyErrors : BodyRejects(i, err)
       \/ EmailDelivered(i)
       \/ EmailFails(i)

SpecSignals == Init /\ [][NextSignals]_vars

\* A sample of the inputs: a success and a server-error status, one network
\* error, and a blank page, a page with the item in stock and a page with
\* the item locked.
SampleStatuses == {200, 500}
SampleErrors == {ErrorValue("Error", "Network down")}
SampleBodies ==
  {<< >>,
   <<Element("button", "add", "Add to Cart", NoAttrs, "body")>>,
   <<Element("button", "add", "Add to Cart", OneAttr("disabled", ""), "body")>>}

\* The handler's steps of invocation i with the sample of the inputs.
SampleStep(i) ==
  \/ Start(i)
  \/ \E status \in SampleStatuses : FetchResponds(i, status)
  \/ \E err \in SampleErrors : FetchRejects(i, err)
  \/ TimerFires(i)
  \/ \E body \in SampleBodies : BodyArrives(i, body)
  \/ \E err \in BodyErrors : BodyRejects(i, err)
  \/ EmailDelivered(i)
  \/ EmailFails(i)

\* NumConcurrent invocations run interleaved in the process, each with the
\* sample of the inputs.
NextTwo ==
  \/ LoadModule
  \/ \E i \in 1..NumConcurrent : SampleStep(i)

SpecTwo == Init /\ [][NextTwo]_vars

\* The process starts in any environment; once the module is loaded the
\* environment may be changed and one invocation runs.
InitStartup == InitIn(Envs)

NextStartup ==
  \/ LoadModule
  \/ BlankEmailEnv
  \/ \E i \in {1} : SampleStep(i)

SpecStartup == InitStartup /\ [][NextStartup]_vars

(***************************************************************************)
(* Properties of the handler.                                              *)
(***************************************************************************)
\* The three shapes of a response (handler.ts:72-78).
IsSuccessShape(r) ==
  /\ DOMAIN r = {"ok", "notified", "exists", "text", "saysAddToCart", "locked"}
  /\ r.ok = TRUE
  /\ r.notified \in BOOLEAN
IsFetchFailShape(r) == DOMAIN r = {"ok", "message"} /\ r.ok = FALSE
IsErrorShape(r) == DOMAIN r = {"ok", "error"} /\ r.ok = FALSE

Returned(i) == pc[i] = "done"

\* The subjects of the emails the invocation has handed to ses.send.
Subjects(i) == {emails[i][k].subject : k \in 1..Len(emails[i])}

\* C1: every invocation that ends, whatever the fetch and the email service
\* answered, ends by returning a value of exactly one of the three shapes
\* Success, FetchFailure, RuntimeFailure; no exception leaves the handler,
\* and nothing is returned before the end.
C1_OneVariantNoEscape ==
  \A i \in Invocations :
    /\ pc[i] # "threw"
    /\ Returned(i) =>
         \/ IsSuccessShape(response[i])
         \/ IsFetchFailShape(response[i])
         \/ IsErrorShape(response[i])
    /\ ~Returned(i) => response[i] = NoResponse

\* Witness of C1: a fetch that threw and an error email that failed, and the
\* handler still returned the RuntimeFailure shape.
C1_Witness ==
  \E i \in Invocations :
    /\ Returned(i)
    /\ IsErrorShape(response[i])
    /\ Len(emails[i]) = 1
    /\ emails[i][1].outcome = "failed"

\* C2: once a non-empty body of a success response is evaluated, the stock
\* email is attempted if and only if exists, saysAddToCart and not locked;
\* for every other combination of the flags no email is attempted at all
\* and the response has notified = false.
C2_NotifyIffAvailable ==
  \A i \in Invocations :
    result[i] # NoResult =>
      LET available ==
            result[i].exists /\ result[i].saysAddToCart /\ ~result[i].locked
      IN /\ available <=> StockSubject \in Subjects(i)
         /\ ~available =>
              /\ emails[i] = << >>
              /\ Returned(i)
              /\ IsSuccessShape(response[i])
              /\ response[i].notified = FALSE

\* Witness of C2: an element that exists and says "Add to Cart" but is
\* locked: the handler returned without any email.
C2_Witness ==
  \E i \in Invocations :
    /\ Returned(i)
    /\ result[i] # NoResult
    /\ result[i].exists /\ result[i].saysAddToCart /\ result[i].locked
    /\ emails[i] = << >>
    /\ response[i].notified = FALSE

\* The target element of a page that has exactly one element with id "add".
HasOneTarget(h) ==
  Cardinality({k \in 1..Len(h) : h[k].type = "element" /\ h[k].id = "add"}) = 1

TargetOf(h) ==
  h[CHOOSE k \in 1..Len(h) : h[k].type = "element" /\ h[k].id = "add"]

\* Texts that read "Add to Cart", in any case and with any spacing.
ReadsAddToCart(text) ==
  text \in {"AddtoCart", "Add to Cart", "Add  to  Cart", "Add   to   Cart",
            " Add to Cart ", "ADD\n TO\tCART", "add to cart"}

\* The disabling signals of section 4.3 of the specification, read off the
\* markup of the element.
CarriesDisablingSignal(e) ==
  \/ "disabled" \in DOMAIN e.attrs
  \/ e.tag = "option" /\ e.parent = "optgroup[disabled]"
  \/ /\ "aria-disabled" \in DOMAIN e.attrs
     /\ e.attrs["aria-disabled"] \in {"true", "TRUE", "True"}
  \/ /\ "data-locked" \in DOMAIN e.attrs
     /\ e.attrs["data-locked"] \in {"true", "TRUE", "True"}
  \/ /\ "class" \in DOMAIN e.attrs
     /\ \E w \in {"disabled", "soldout", "locked", "unavailable"} :
          Includes(ToLowerCase(e.attrs["class"]), w)

\* The fetched page shows an enabled "Add to Cart" element.
ShowsAddToCart(i) ==
  /\ html[i] # NoHtml
  /\ HasOneTarget(html[i])
  /\ ReadsAddToCart(TargetOf(html[i]).text)
  /\ ~CarriesDisablingSignal(TargetOf(html[i]))

C4_StockEmailFailureIsSuccess ==
  \A i \in Invocations :
    (\E k \in 1..Len(emails[i]) :
        emails[i][k].subject = StockSubject /\ emails[i][k].outcome = "failed") =>
      /\ Returned(i)
      /\ IsSuccessShape(response[i])
      /\ response[i].notified = FALSE
      /\ response[i].exists /\ response[i].saysAddToCart /\ ~response[i].locked
      /\ response[i].exists = result[i].exists
      /\ response[i].text = result[i].text
      /\ response[i].saysAddToCart = result[i].saysAddToCart
      /\ response[i].locked = result[i].locked
      /\ caught[i] = NoCaught
      /\ Len(emails[i]) = 1

\* Witness of C4: an available item whose stock email failed.
C4_Witness ==
  \E i \in Invocations :
    /\ Returned(i)
    /\ result[i] # NoResult
    /\ result[i].exists /\ result[i].saysAddToCart /\ ~result[i].locked
    /\ Len(emails[i]) = 1
    /\ emails[i][1].outcome = "failed"
    /\ response[i].ok = TRUE

\* The server answered the fetch of invocation i with a non-success status.
GotNonSuccess(i) == res[i] # NoRes /\ ~(res[i].status \in 200..299)

C6_MessageSaysFetchFailed ==
  \A i \in Invocations :
    (Returned(i) /\ GotNonSuccess(i)) =>
      /\ response[i].ok = FALSE
      /\ "message" \in DOMAIN response[i]
      /\ Includes(response[i].message, "Fetch failed " \o ToString(res[i].status))

\* C7: a success status with an empty or whitespace-only body ends in
\* FetchFailure with the message "Received empty response from target URL";
\* the page is not evaluated and no email of any kind is attempted.
C7_EmptyBody ==
  \A i \in Invocations :
    html[i] \in {<< >>, <<TextNode(" \n\t")>>} =>
      /\ res[i].status \in 200..299
      /\ Returned(i)
      /\ response[i] = [ok |-> FALSE, message |-> "Received empty response from target URL"]
      /\ result[i] = NoResult
      /\ emails[i] = << >>
      /\ caught[i] = NoCaught

\* Witness of C7: a whitespace-only body was read and the handler returned.
C7_Witness ==
  \E i \in Invocations :
    /\ Returned(i)
    /\ html[i] = <<TextNode(" \n\t")>>
    /\ IsFetchFailShape(response[i])

\* The fetch of invocation i threw: the catch block ran and there never was
\* a response.
FetchThrew(i) == caught[i] # NoCaught /\ res[i] = NoRes

\* C8: when the fetch throws (a network error, a thrown value that is no
\* Error, or the abort), the handler returns RuntimeFailure whose error is
\* the message of the thrown error (the string form of a thrown value that
\* is no Error), never FetchFailure or Success.
C8_FetchThrowsRuntimeFailure ==
  \A i \in Invocations :
    (Returned(i) /\ FetchThrew(i)) =>
      /\ IsErrorShape(response[i])
      /\ ~IsFetchFailShape(response[i])
      /\ ~IsSuccessShape(response[i])
      /\ caught[i].kind = "Error" => response[i].error = caught[i].message
      /\ caught[i].kind = "string" => response[i].error = caught[i].value

\* Witness of C8: fetch threw Error("Network down") (handler.test.ts:116).
C8_Witness ==
  \E i \in Invocations :
    /\ Returned(i)
    /\ FetchThrew(i)
    /\ caught[i] = ErrorValue("Error", "Network down")
    /\ response[i] = [ok |-> FALSE, error |-> "Network down"]

\* C9: an invocation that ends in RuntimeFailure has attempted exactly one
\* email, the error notification, and that send had settled before the
\* handler returned; the RuntimeFailure is the one the caught error
\* determines, whether the notification was delivered or failed.
C9_OneErrorNotice ==
  \A i \in Invocations :
    (Returned(i) /\ IsErrorShape(response[i])) =>
      /\ Len(emails[i]) = 1
      /\ emails[i][1].subject \in {"Stock check timeout", "Stock check system error"}
      /\ emails[i][1].outcome \in {"delivered", "failed"}
      /\ caught[i] # NoCaught
      /\ response[i].error =
           (IF caught[i].kind = "Error" THEN caught[i].message ELSE caught[i].value)

\* Witness of C9: the fetch was aborted by the timeout, the notification
\* failed, and RuntimeFailure was returned.
C9_Witness ==
  \E i \in Invocations :
    /\ Returned(i)
    /\ IsErrorShape(response[i])
    /\ caught[i] = AbortError
    /\ emails[i][1].subject = "Stock check timeout"
    /\ emails[i][1].outcome = "failed"

\* The page has no element with id "add".
HasNoTarget(h) == \A k \in 1..Len(h) : ~(h[k].type = "element" /\ h[k].id = "add")

\* C10: for every non-empty page that was evaluated, exists is false exactly
\* when the page has no element with id "add", and then text is "", locked
\* is true, saysAddToCart is false, no email is attempted and the handler
\* returns Success with these flags and notified = false.
C10_MissingElement ==
  \A i \in Invocations :
    result[i] # NoResult =>
      /\ result[i].exists <=> ~HasNoTarget(html[i])
      /\ ~result[i].exists =>
           /\ result[i].text = ""
           /\ result[i].locked = TRUE
           /\ result[i].saysAddToCart = FALSE
           /\ emails[i] = << >>
           /\ response[i] = [ok |-> TRUE, notified |-> FALSE, exists |-> FALSE,
                             text |-> "", saysAddToCart |-> FALSE, locked |-> TRUE]

\* Witness of C10: a page whose only button says "Add to Cart" but has
\* another id: the element is reported missing.
C10_Witness ==
  \E i \in Invocations :
    /\ Returned(i)
    /\ html[i] = <<TextNode("\n"), Element("button", "buy", "Add to Cart", NoAttrs, "body")>>
    /\ result[i] # NoResult
    /\ ~result[i].exists
    /\ response[i].ok = TRUE

\* The disabling signals of a target element, with the attribute values that
\* count listed one by one.
SignalPresent(e) ==
  \/ "disabled" \in DOMAIN e.attrs
  \/ e.tag = "option" /\ e.parent = "optgroup[disabled]"
  \/ "aria-disabled" \in DOMAIN e.attrs /\ e.attrs["aria-disabled"] \in {"true", "TRUE"}
  \/ "data-locked" \in DOMAIN e.attrs /\ e.attrs["data-locked"] \in {"true", "True"}
  \/ /\ "class" \in DOMAIN e.attrs
     /\ e.attrs["class"] \in {"btn-SoldOut-v2", "is-Disabled", "unlocked", "item UNAVAILABLE"}

\* C11: for a page with a target element, locked is true exactly when the
\* element carries at least one disabling signal (the disabled attribute or
\* pseudo-state, aria-disabled "true" in any case, a class holding
\* "disabled", "soldout", "locked" or "unavailable" in any case, data-locked
\* "true" in any case), whatever its text; a locked element, also one that
\* says "Add to Cart", gets no email and the response locked = true,
\* notified = false.
C11_LockedIffSignal ==
  \A i \in Invocations :
    (result[i] # NoResult /\ HasOneTarget(html[i])) =>
      /\ result[i].locked <=> SignalPresent(TargetOf(html[i]))
      /\ result[i].locked =>
           /\ emails[i] = << >>
           /\ Returned(i)
           /\ response[i].ok = TRUE
           /\ response[i].locked = TRUE
           /\ response[i].notified = FALSE

\* Witness of C11: a button that says "Add to Cart" and carries a class with
\* "soldout" inside it: locked, not notified.
C11_Witness ==
  \E i \in Invocations :
    /\ Returned(i)
    /\ html[i] # NoHtml
    /\ HasOneTarget(html[i])
    /\ TargetOf(html[i]).text = "Add to Cart"
    /\ TargetOf(html[i]).attrs = OneAttr("class", "btn-SoldOut-v2")
    /\ response[i].saysAddToCart = TRUE
    /\ response[i].locked = TRUE
    /\ response[i].notified = FALSE

\* Settings that are missing or malformed.
BadUrls == {"", "not a url", "shop.example/item", "https://"}
BadEmails == {"", "ops", "a b@example.com", "a@b", "x@@example.com"}

ConfigErrors ==
  {"TARGET_URL environment variable is required",
   "TO_EMAIL and FROM_EMAIL environment variables are required",
   "TARGET_URL must be a valid URL",
   "TO_EMAIL must be a valid email address",
   "FROM_EMAIL must be a valid email address"}

\* No trace of invocation i: not started, nothing fetched, sent or returned.
NeverRan(i) ==
  /\ pc[i] = "idle"
  /\ timer[i] = "unset"
  /\ emails[i] = << >>
  /\ log[i] = << >>
  /\ response[i] = NoResponse

\* C12: when the URL is missing or invalid, or an address is missing or
\* malformed, the evaluation of the module fails: the error is logged and
\* thrown again, the email client is not built, and no invocation ever
\* fetches or sends with that configuration; an invocation runs only with a
\* valid configuration and a configuration error shows up only at start-up,
\* never in an invocation's log or response.
C12_InvalidConfigNeverRuns ==
  /\ [](/\ startup = "failed" =>
            /\ Len(startupLog) = 2
            /\ startupLog[1] = "Environment validation failed:"
            /\ startupLog[2] \in ConfigErrors
            /\ ses = NoSes
            /\ config = NoConfig
            /\ \A i \in Invocations : NeverRan(i)
        /\ startup = "pending" => \A i \in Invocations : NeverRan(i)
        /\ startup = "loaded" =>
            /\ startupLog = << >>
            /\ ses # NoSes
            /\ ~(config.targetUrl \in BadUrls)
            /\ ~(config.toEmail \in BadEmails)
            /\ ~(config.fromEmail \in BadEmails)
            /\ \A i \in Invocations :
                 /\ \A k \in 1..Len(log[i]) : ~(log[i][k] \in ConfigErrors)
                 /\ (Returned(i) /\ IsErrorShape(response[i])) =>
                      ~(response[i].error \in ConfigErrors))
  /\ [][(/\ startup = "pending"
          /\ \/ env.TARGET_URL \in BadUrls
             \/ env.TO_EMAIL \in BadEmails
             \/ env.FROM_EMAIL \in BadEmails)
         => startup' = "failed"]_vars

\* Witness of C12: a recipient address with a blank in it: the module failed
\* to load, the error is in the log and there is no email client.
C12_Witness ==
  /\ startup = "failed"
  /\ env.TO_EMAIL = "a b@example.com"
  /\ startupLog = <<"Environment validation failed:", "TO_EMAIL must be a valid email address">>
  /\ ses = NoSes

\* The HTTP exchange of invocation i is in flight: the request is sent and
\* the response, headers and body, is not yet read to its end.
InFlight(i) == pc[i] \in {"fetching", "reading"}

\* C13: the 25 s timeout covers the whole exchange: as long as the exchange
\* is in flight, the reading of the body included, the timer that aborts it
\* is armed, so that no request outlives the bound.
C13_TimeoutCoversExchange ==
  \A i \in Invocations : InFlight(i) => timer[i] = "pending"

\* C14: a fetch aborted by the 25 s timer is flagged as a timeout (the
\* notification has the subject "Stock check timeout"), every other thrown
\* error is flagged as no timeout (subject "Stock check system error"), and
\* both return the RuntimeFailure shape with the message of the error.
C14_TimeoutFlag ==
  /\ [](\A i \in Invocations :
          caught[i] # NoCaught =>
            /\ Len(emails[i]) = 1
            /\ emails[i][1].subject \in {"Stock check timeout", "Stock check system error"}
            /\ emails[i][1].subject = "Stock check timeout" =>
                 (timer[i] = "fired" /\ aborted[i] /\ res[i] = NoRes)
            /\ Returned(i) => IsErrorShape(response[i]))
  /\ [][\A i \in Invocations :
          (pc[i] = "fetching" /\ timer[i] = "pending" /\ timer'[i] = "fired") =>
            /\ caught'[i] # NoCaught
            /\ emails'[i][1].subject = "Stock check timeout"]_vars
  /\ [][\A i \in Invocations :
          (caught[i] = NoCaught /\ caught'[i] # NoCaught /\ timer'[i] = timer[i]) =>
            emails'[i][1].subject = "Stock check system error"]_vars

\* Witness of C14: the timer fired during the fetch, the timeout notice was
\* delivered and the handler returned the abort as a RuntimeFailure.
C14_Witness ==
  \E i \in Invocations :
    /\ Returned(i)
    /\ timer[i] = "fired"
    /\ res[i] = NoRes
    /\ emails[i] = <<[to |-> "to@example.com", from |-> "from@example.com",
                      subject |-> "Stock check timeout", outcome |-> "delivered"]>>
    /\ response[i] = [ok |-> FALSE, error |-> "This operation was aborted"]

\* The positions of line in the console output of invocation i.
LinesOf(i, line) == {k \in 1..Len(log[i]) : log[i][k] = line}

\* The positions where sendEmail logged that a send settled.
EmailLines(i) == LinesOf(i, "Email sent successfully") \cup LinesOf(i, "Failed to send email")

\* C15: on every path the start marker is the first line of an invocation,
\* logged before the fetch begins; the completion line with the duration is
\* logged exactly once, when the invocation ends and after every email
\* attempt has settled; and the slow-execution warning is logged exactly
\* when the measured duration is above 20000 ms.
C15_StartAndCompletionLogged ==
  \A i \in Invocations :
    /\ pc[i] = "idle" => log[i] = << >>
    /\ pc[i] # "idle" => log[i][1] = "Starting stock check execution"
    /\ Cardinality(LinesOf(i, "Starting stock check execution")) <= 1
    /\ ~Returned(i) =>
         /\ LinesOf(i, "Stock check completed") = {}
         /\ LinesOf(i, "Slow execution detected") = {}
         /\ duration[i] = NoDuration
    /\ Returned(i) =>
         /\ Cardinality(LinesOf(i, "Stock check completed")) = 1
         /\ \A k \in 1..Len(emails[i]) : emails[i][k].outcome # "pending"
         /\ Cardinality(EmailLines(i)) = Len(emails[i])
         /\ \A c \in LinesOf(i, "Stock check completed") : \A e \in EmailLines(i) : e < c
         /\ duration[i] >= 0
         /\ LinesOf(i, "Slow execution detected") # {} <=> duration[i] > 20000
         /\ Cardinality(LinesOf(i, "Slow execution detected")) <= 1

\* Witness of C15: an invocation that took exactly 20000 ms, with a failed
\* email: the completion is logged after the email's line, without warning.
C15_Witness ==
  \E i \in Invocations :
    /\ Returned(i)
    /\ duration[i] = 20000
    /\ LinesOf(i, "Failed to send email") # {}
    /\ log[i][Len(log[i])] = "Stock check completed"

\* The sends of invocation i that are in progress.
SendsInProgress(i) == {k \in 1..Len(emails[i]) : emails[i][k].outcome = "pending"}

\* C16: within an invocation no send starts while the exchange is in
\* flight and no two sends are in progress together: a send starts only
\* after the fetch answered or failed, and the handler waits for it, and
\* does nothing else, until it has settled.
C16_SendsAreSequential ==
  \A i \in Invocations :
    /\ InFlight(i) => emails[i] = << >>
    /\ Cardinality(SendsInProgress(i)) <= 1
    /\ SendsInProgress(i) # {} <=> pc[i] \in Sending
    /\ emails[i] # << >> => (res[i] # NoRes \/ caught[i] # NoCaught)

\* Witness of C16: the server-error email is in progress; the fetch has
\* answered 503 and nothing else is going on.
C16_Witness ==
  \E i \in Invocations :
    /\ res[i].status = 503
    /\ pc[i] = "sendingServerError"
    /\ SendsInProgress(i) = {1}

\* The state of invocation i.
Local(i) ==
  <<pc[i], timer[i], aborted[i], res[i], html[i], result[i], caught[i], emails[i],
    log[i], duration[i], response[i]>>

\* What invocation i returns and sends, told from its own fetch outcome, its
\* own email outcome and the configuration.
OwnEmail(i, subject) ==
  [to |-> config.toEmail, from |-> config.fromEmail, subject |-> subject,
   outcome |-> emails[i][1].outcome]

OwnOutcome(i) ==
  IF caught[i] # NoCaught
    THEN /\ response[i] = [ok |-> FALSE, error |-> ErrorMessage(caught[i])]
         /\ emails[i] = <<OwnEmail(i, IF caught[i].name = "AbortError"
                                        THEN "Stock check timeout"
                                        ELSE "Stock check system error")>>
  ELSE IF res[i].status = 500
    THEN /\ response[i] = [ok |-> FALSE,
                           message |-> "HTTP 500 Internal Server Error when fetching "
                                         \o config.targetUrl]
         /\ emails[i] = <<OwnEmail(i, "Stock check: Server error detected")>>
  ELSE IF html[i] = << >>
    THEN /\ response[i] = [ok |-> FALSE, message |-> "Received empty response from target URL"]
         /\ emails[i] = << >>
  ELSE IF "disabled" \in DOMAIN html[i][1].attrs
    THEN /\ response[i] = [ok |-> TRUE, notified |-> FALSE, exists |-> TRUE,
                           text |-> "Add to Cart", saysAddToCart |-> TRUE, locked |-> TRUE]
         /\ emails[i] = << >>
  ELSE /\ response[i] = [ok |-> TRUE, notified |-> emails[i][1].outcome = "delivered",
                         exists |-> TRUE, text |-> "Add to Cart", saysAddToCart |-> TRUE,
                         locked |-> FALSE]
       /\ emails[i] = <<OwnEmail(i, "Item In Stock Alert - Add to Cart Available!")>>

\* C17: when invocations run interleaved in one process, what each returns
\* and sends depends only on its own fetch outcome, its own email outcome
\* and the configuration; a step of one invocation, the firing of its
\* timer included, changes nothing of another one, so that the timeout of
\* one never cancels the fetch of the other.
C17_InvocationsIndependent ==
  /\ [](\A i \in Invocations :
          /\ Returned(i) => OwnOutcome(i)
          /\ aborted[i] => timer[i] = "fired"
          /\ (caught[i] # NoCaught /\ caught[i].name = "AbortError") => timer[i] = "fired")
  /\ [][\E i \in Invocations :
          \A j \in Invocations \ {i} : Local(j)' = Local(j)]_vars

\* Witness of C17: one invocation was aborted by its timeout while the
\* other one, started before the first ended, went on to notify.
C17_Witness ==
  \E i, j \in Invocations :
    /\ i # j
    /\ Returned(i)
    /\ timer[i] = "fired"
    /\ response[i] = [ok |-> FALSE, error |-> "This operation was aborted"]
    /\ Returned(j)
    /\ timer[j] = "cleared"
    /\ response[j].ok = TRUE
    /\ response[j].notified = TRUE

\* Invocation i reached a point where the handler sends an email: a server
\* error, an exception, or an item in stock.
OwesEmail(i) ==
  \/ res[i].status >= 500 /\ pc[i] # "fetching"
  \/ caught[i] # NoCaught
  \/ html[i] = <<Element("button", "add", "Add to Cart", NoAttrs, "body")>>

ErrorSubjects == {"Stock check timeout", "Stock check system error"}

\* C19: an invocation attempts at most one email on every path: a stock or
\* server-error email that failed is not followed by an error
\* notification, and an invocation that returns Success or FetchFailure
\* has not sent the email of the RuntimeFailure path.
C19_AtMostOneEmail ==
  \A i \in Invocations :
    /\ Len(emails[i]) <= 1
    /\ (emails[i] # << >> /\ ~(emails[i][1].subject \in ErrorSubjects)) =>
         caught[i] = NoCaught
    /\ (Returned(i) /\ (IsSuccessShape(response[i]) \/ IsFetchFailShape(response[i]))) =>
         Subjects(i) \cap ErrorSubjects = {}
    /\ (Returned(i) /\ IsErrorShape(response[i])) => Subjects(i) \subseteq ErrorSubjects

\* Witness of C19: the server-error email failed and the handler returned
\* the FetchFailure with that one attempt only.
C19_Witness ==
  \E i \in Invocations :
    /\ Returned(i)
    /\ res[i].status = 500
    /\ IsFetchFailShape(response[i])
    /\ Len(emails[i]) = 1
    /\ emails[i][1].subject = "Stock check: Server error detected"
    /\ emails[i][1].outcome = "failed"

\* C20: when an invocation returns, the 25 s abort timer it armed is no
\* longer pending: it was cleared or it has fired, also when the fetch
\* threw before the timeout.
C20_TimerSettledAtReturn ==
  \A i \in Invocations : Returned(i) => timer[i] \in {"cleared", "fired"}

====
